---- MODULE Spec2Model ----
(***************************************************************************)
(* Anomaly scorers of darts/ad/scorers/scorers.py as a state machine.      *)
(*                                                                         *)
(* One scorer object is modelled: its configuration (fixed by the          *)
(* constructor), its fit state (_fit_called, width_trained_on, model) and  *)
(* the outcome of the most recent public call.  Every public method is one *)
(* action; the method bodies are operators over a record `self` that       *)
(* return the record after the call together with what the call returned   *)
(* or raised.                                                              *)
(***************************************************************************)
EXTENDS Integers, Sequences, FiniteSets, TLC

VARIABLES cfg, fit_called, width_trained_on, model, fit_done, trained_on, last,
          running

vars == <<cfg, fit_called, width_trained_on, model, fit_done, trained_on, last,
          running>>

\* ------------------------------------------------------------------ bounds
\* longest series drawn as an input
MaxLen == 3
\* largest window a scorer is constructed with
MaxWindow == 2

\* component counts of the input series
Widths == {1, 2}
\* n_jobs values a scorer is constructed with
NJobs == {1, 2}

\* --------------------------------------------------------------- utilities
RECURSIVE SumSeq(_)
SumSeq(s) == IF s = <<>> THEN 0 ELSE Head(s) + SumSeq(Tail(s))

RECURSIVE ConcatAll(_)
ConcatAll(ss) == IF ss = <<>> THEN <<>> ELSE Head(ss) \o ConcatAll(Tail(ss))

SetMin(S) == CHOOSE x \in S : \A y \in S : x <= y
SetMax(S) == CHOOSE x \in S : \A y \in S : x >= y
Abs(x) == IF x < 0 THEN -x ELSE x
Range(s) == {s[i] : i \in 1..Len(s)}

\* ------------------------------------------------------------- TimeSeries
\* A TimeSeries: time index start .. start+len-1, values vals[t][k][j] for
\* time step t, component k and sample j.  ts is FALSE for an object that
\* is not a TimeSeries.
MkSeries(start, len, width, ns, Val(_, _, _)) ==
    [ts |-> TRUE, start |-> start, len |-> len, width |-> width, ns |-> ns,
     vals |-> [t \in 1..len |-> [k \in 1..width |-> [j \in 1..ns |-> Val(t, k, j)]]]]

NonSeries ==
    [ts |-> FALSE, start |-> 0, len |-> 0, width |-> 0, ns |-> 0, vals |-> <<>>]

\* the 0.5 quantile of an odd number of samples: the middle one by rank
Median(samples) ==
    CHOOSE v \in Range(samples) :
        /\ 2 * Cardinality({j \in 1..Len(samples) : samples[j] < v}) < Len(samples)
        /\ 2 * Cardinality({j \in 1..Len(samples) : samples[j] > v}) < Len(samples)

\* series.quantile_timeseries(quantile=0.5)
quantile_timeseries(series) ==
    [series EXCEPT !.ns = 1,
                   !.vals = [t \in 1..series.len |-> [k \in 1..series.width |->
                                <<Median(series.vals[t][k])>>]]]

\* AnomalyScorer._extract_deterministic
_extract_deterministic(series) ==
    IF series.ns # 1 THEN quantile_timeseries(series) ELSE series

\* series2seq: a bare series becomes a one-element list, a list stays
series2seq(arg) == arg.items

\* isinstance(arg, Sequence)
IsSequence(arg) == ~arg.bare

\* darts.ad.utils._assert_timeseries
_assert_timeseries(s) == s.ts

\* AnomalyScorer._check_window_size
_check_window_size(self, series) == self.cfg.window <= series.len

\* ------------------------------------------------------------ window model
\* The pluggable window model is an object trained in place by fit(rows):
\* it records the row width and the range of the row sums it has seen, and
\* scores a row by its distance to that range.
UntrainedModel == [trained |-> FALSE, nf |-> 0, lo |-> 0, hi |-> 0]

\* model.fit(rows): the object after training (fit returns the object)
ModelFit(m, rows) ==
    [trained |-> TRUE, nf |-> Len(rows[1]),
     lo |-> SetMin({SumSeq(rows[i]) : i \in 1..Len(rows)}),
     hi |-> SetMax({SumSeq(rows[i]) : i \in 1..Len(rows)})]

\* whether model.fit(rows) raises: the model validates the table before it
\* trains and rejects one that holds a negative entry
ModelFitRaises(rows) ==
    \E i \in 1..Len(rows) : \E e \in 1..Len(rows[i]) : rows[i][e] < 0

\* whether inference of model m accepts the rows
ModelAccepts(m, rows) ==
    m.trained /\ \A i \in 1..Len(rows) : Len(rows[i]) = m.nf

\* one score per row
ModelScore(m, rows) ==
    [i \in 1..Len(rows) |->
        LET x == SumSeq(rows[i])
        IN  IF x < m.lo THEN m.lo - x ELSE IF x > m.hi THEN x - m.hi ELSE 0]

\* ------------------------------------------------------------ tabularization
\* sliding_window_view(arr, window, axis=0) of an array of shape
\* (len, width, ns) has shape (len-window+1, width, ns, window); the
\* reshape reads it in row-major order and cuts it into rows.
NumWindows(series, w) == series.len - w + 1

\* element n (from 0) of the row-major reading of the (r, c, j, w) array
FlatJoint(series, w, n) ==
    LET iw == n % w
        ij == (n \div w) % series.ns
        ic == (n \div (w * series.ns)) % series.width
        ir == n \div (w * series.ns * series.width)
    IN  series.vals[ir + iw + 1][ic + 1][ij + 1]

\* reshape(-1, window * width): component_wise=False
TabJoint(series, w) ==
    LET rowlen == w * series.width
        nrows == NumWindows(series, w) * series.ns
    IN  [q \in 1..nrows |-> [e \in 1..rowlen |->
            FlatJoint(series, w, (q - 1) * rowlen + (e - 1))]]

\* element n (from 0) of component c in the (c, r, j, w) array
FlatComp(series, w, c, n) ==
    LET iw == n % w
        ij == (n \div w) % series.ns
        ir == n \div (w * series.ns)
    IN  series.vals[ir + iw + 1][c][ij + 1]

\* reshape(width, -1, window): component_wise=True, one table per component
TabComp(series, w) ==
    LET nrows == NumWindows(series, w) * series.ns
    IN  [c \in 1..series.width |-> [q \in 1..nrows |-> [e \in 1..w |->
            FlatComp(series, w, c, (q - 1) * w + (e - 1))]]]

\* WindowedAnomalyScorer._tabularize_series(concatenate=True, component_wise=False)
_tabularize_joint(self, list_series) ==
    ConcatAll([i \in 1..Len(list_series) |-> TabJoint(list_series[i], self.cfg.window)])

\* WindowedAnomalyScorer._tabularize_series(concatenate=True, component_wise=True):
\* the tables are concatenated along axis 1, per component of the first series
_tabularize_component_wise(self, list_series) ==
    [c \in 1..list_series[1].width |->
        ConcatAll([i \in 1..Len(list_series) |->
            TabComp(list_series[i], self.cfg.window)[c]])]

\* ------------------------------------------------------- results of a call
\* A method call yields the object after the call, the exception it raised
\* ("none" when it returned), the index (from 1) of the input element the
\* exception is about (0: none), what it returned, and the input elements
\* on which the window model's inference was invoked, in order.
NoOut == [bare |-> FALSE, items |-> <<>>, window |-> 0]

Raise(self, e, idx, log) ==
    [self |-> self, err |-> e, err_idx |-> idx, out |-> NoOut, infer_log |-> log]

Return(self, out, log) ==
    [self |-> self, err |-> "none", err_idx |-> 0, out |-> out, infer_log |-> log]

\* ------------------------------------------------------- parallel execution
\* the orders in which n parallel tasks can complete
CompletionOrders(n, n_jobs) ==
    IF n_jobs = 1
    THEN {[p \in 1..n |-> p]}
    ELSE {o \in [1..n -> 1..n] : \A p, q \in 1..n : o[p] = o[q] => p = q}

\* results arrive in completion order, each with the position of its task,
\* and are put back by position
ReassembleByPosition(n, order, Result(_)) ==
    LET IsTask(p) == p <= n
        done == SelectSeq(order, IsTask)
        arrived == [p \in 1..n |-> [pos |-> done[p], val |-> Result(done[p])]]
    IN  [c \in 1..n |-> (CHOOSE a \in Range(arrived) : a.pos = c).val]

\* The calls of one bound method obj.fit, one after the other in the
\* caller's process: each trains the same object again and returns it.
RECURSIVE FitSameObject(_, _, _)
FitSameObject(obj, tables, c) ==
    IF c > Len(tables) THEN obj
    ELSE FitSameObject(ModelFit(obj, tables[c]), tables, c + 1)

\* _parallel_apply(iterator, copy.deepcopy(self.model).fit, n_jobs): with one
\* job the tasks run in the caller's process on the one copied object, so
\* every entry of the result is that object as the last task left it; with
\* more jobs each task trains the copy its worker received.
_parallel_apply_fit(proto, tables, n_jobs, order) ==
    IF n_jobs = 1
    THEN [c \in 1..Len(tables) |-> FitSameObject(proto, tables, 1)]
    ELSE LET fit_task(c) == ModelFit(proto, tables[c])
         IN  ReassembleByPosition(Len(tables), order, fit_task)

\* _parallel_apply(iterator, self._model_score_method, n_jobs) over the
\* pairs zip(self.model, tables)
_parallel_apply_score(models, tables, n_jobs, order) ==
    LET n == IF Len(models) < Len(tables) THEN Len(models) ELSE Len(tables)
        score_task(c) == ModelScore(models[c], tables[c])
    IN  ReassembleByPosition(n, order, score_task)

\* --------------------------------------------------------------------- fit
\* AnomalyScorer._fit_core: not implemented by the base class
_fit_core_base(self, list_series) ==
    Raise(self, "NotImplementedError", 0, <<>>)

\* WindowedAnomalyScorer._fit_core
_fit_core_windowed(self, list_series, order) ==
    IF (~self.cfg.component_wise) \/ (list_series[1].width = 1)
    THEN \* self.model.fit(...): self.model must be one model object
         IF self.model.is_list
         THEN Raise(self, "AttributeError", 0, <<>>)
         ELSE IF ModelFitRaises(_tabularize_joint(self, list_series))
         THEN Raise(self, "train_error", 0, <<>>)
         ELSE Return([self EXCEPT !.model =
                        [is_list |-> FALSE,
                         subs |-> <<ModelFit(self.model.subs[1],
                                             _tabularize_joint(self, list_series))>>]],
                     NoOut, <<>>)
    ELSE \* copy.deepcopy(self.model).fit: a list has no attribute fit
         IF self.model.is_list
         THEN Raise(self, "AttributeError", 0, <<>>)
         ELSE IF \E c \in 1..list_series[1].width :
                    ModelFitRaises(_tabularize_component_wise(self, list_series)[c])
         THEN \* the exception of a task leaves _parallel_apply before the
              \* assignment to self.model
              Raise(self, "train_error", 0, <<>>)
         ELSE Return([self EXCEPT !.model =
                        [is_list |-> TRUE,
                         subs |-> _parallel_apply_fit(
                                     self.model.subs[1],
                                     _tabularize_component_wise(self, list_series),
                                     self.cfg.n_jobs, order)]],
                     NoOut, <<>>)

\* the _fit_core of the scorer's class
_fit_core(self, list_series, order) ==
    IF self.cfg.cls = "Windowed"
    THEN _fit_core_windowed(self, list_series, order)
    ELSE _fit_core_base(self, list_series)

\* the validation loop recording the width of the first element only when
\* none is recorded yet
RECURSIVE FitLoop_width_set_once(_, _, _)
FitLoop_width_set_once(self, list_series, idx) ==
    IF idx > Len(list_series) THEN Return(self, NoOut, <<>>)
    ELSE LET s == list_series[idx]
         IN  IF ~_assert_timeseries(s)
             THEN Raise(self, "not_timeseries", idx, <<>>)
             ELSE IF idx > 1 /\ s.width # list_series[1].width
             THEN Raise(self, "width_mismatch", idx, <<>>)
             ELSE LET self1 == IF idx = 1 /\ self.width_trained_on = 0
                               THEN [self EXCEPT !.width_trained_on = s.width]
                               ELSE self
                  IN  IF ~_check_window_size(self1, s)
                      THEN Raise(self1, "window_too_large", idx, <<>>)
                      ELSE FitLoop_width_set_once(self1, list_series, idx + 1)

\* The validation loop of AnomalyScorer.fit from element idx on: the first
\* element writes width_trained_on before its window is checked.
RECURSIVE FitLoop(_, _, _)
FitLoop(self, list_series, idx) ==
    IF idx > Len(list_series) THEN Return(self, NoOut, <<>>)
    ELSE LET s == list_series[idx]
         IN  IF ~_assert_timeseries(s)
             THEN Raise(self, "not_timeseries", idx, <<>>)
             ELSE IF idx > 1 /\ s.width # self.width_trained_on
             THEN Raise(self, "width_mismatch", idx, <<>>)
             ELSE LET self1 == IF idx = 1
                               THEN [self EXCEPT !.width_trained_on = s.width]
                               ELSE self
                  IN  IF ~_check_window_size(self1, s)
                      THEN Raise(self1, "window_too_large", idx, <<>>)
                      ELSE FitLoop(self1, list_series, idx + 1)

\* a method defined without the decorator
_check_single_series_support_not_applied(self) == TRUE

\* the decorator _check_single_series_support
_check_single_series_support(self) == self.cfg.single_series_support

\* AnomalyScorer.fit
fit(self, series, order) ==
    IF ~_check_single_series_support(self)
    THEN Raise(self, "no_single_series_support", 0, <<>>)
    ELSE LET list_series == series2seq(series)
             checked == FitLoop(self, list_series, 1)
         IN  IF checked.err # "none" THEN checked
             ELSE LET core == _fit_core(checked.self, list_series, order)
                  IN  IF core.err # "none" THEN core
                      ELSE Return([core.self EXCEPT !.fit_called = "True"], NoOut, <<>>)

\* ------------------------------------------------------------------- score
\* check_if_fit_called testing "is not None" instead of the flag's truth
check_if_fit_called_not_none(self) == self.fit_called # "None"

\* AnomalyScorer.check_if_fit_called: raise_if_not(self._fit_called)
check_if_fit_called(self) == self.fit_called = "True"

\* the mean of a slice of values, kept as the exact fraction sum / count
Mean(values) == [num |-> SumSeq(values), den |-> Len(values)]

\* window aggregation looking behind: the value at idx_point is the mean of
\* score[idx_point - window + 1 : idx_point + 1]
_fun_window_agg_look_behind(score, window) ==
    [score EXCEPT !.vals =
        [t \in 1..score.len |-> [k \in 1..score.width |-> [j \in 1..score.ns |->
            LET first == IF t - window + 1 < 1 THEN 1 ELSE t - window + 1
            IN  Mean([i \in 1..(t - first + 1) |-> score.vals[first + i - 1][k][j]])]]]]

\* AnomalyScorer._fun_window_agg for one score series: the value at idx_point
\* is the mean of score[idx_point : idx_point + window]
_fun_window_agg(score, window) ==
    [score EXCEPT !.vals =
        [t \in 1..score.len |-> [k \in 1..score.width |-> [j \in 1..score.ns |->
            LET stop == IF t + window - 1 < score.len THEN t + window - 1 ELSE score.len
            IN  Mean([i \in 1..(stop - t + 1) |-> score.vals[t + i - 1][k][j]])]]]]

\* the score index cut at time_index[window:], one step too far
ScoreSeries_cut_window(series, window, width, values) ==
    [ts |-> TRUE, start |-> series.start + window,
     len |-> series.len - window, width |-> width, ns |-> 1,
     vals |-> [t \in 1..(series.len - window) |->
                [k \in 1..width |-> <<values[t][k]>>]]]

\* TimeSeries.from_times_and_values(series.time_index[window - 1:], values)
\* where values[t][k] is the score of time step t and component k
ScoreSeries(series, window, width, values) ==
    [ts |-> TRUE, start |-> series.start + window - 1,
     len |-> series.len - window + 1, width |-> width, ns |-> 1,
     vals |-> [t \in 1..(series.len - window + 1) |->
                [k \in 1..width |-> <<values[t][k]>>]]]

\* the last lines of WindowedAnomalyScorer._score_core
ApplyWindowAgg(self, score) ==
    IF self.cfg.window > 1 /\ self.cfg.window_agg
    THEN _fun_window_agg(score, self.cfg.window)
    ELSE score

\* log entries of n inference calls on input element idx
Invoked(idx, n) == [i \in 1..n |-> idx]

\* WindowedAnomalyScorer._score_core after the component-count gate: the
\* window model(s) score the tabularized series
_score_core_windowed_infer(self, series, idx, order) ==
    IF (~self.cfg.component_wise) \/ (series.width = 1)
    THEN LET table == TabJoint(series, self.cfg.window)
         IN  IF self.model.is_list \/ ~ModelAccepts(self.model.subs[1], table)
             THEN Raise(self, "model_error", idx, Invoked(idx, 1))
             ELSE LET np_score == ModelScore(self.model.subs[1], table)
                  IN  IF Len(np_score) # NumWindows(series, self.cfg.window)
                      THEN Raise(self, "ValueError", idx, Invoked(idx, 1))
                      ELSE Return(self,
                                  ApplyWindowAgg(self,
                                      ScoreSeries(series, self.cfg.window, 1,
                                          [t \in 1..Len(np_score) |-> <<np_score[t]>>])),
                                  Invoked(idx, 1))
    ELSE \* zip(self.model, tables): self.model must be a list
         IF ~self.model.is_list
         THEN Raise(self, "TypeError", idx, <<>>)
         ELSE LET tables == _tabularize_component_wise(self, <<series>>)
                  n == IF Len(self.model.subs) < Len(tables)
                       THEN Len(self.model.subs) ELSE Len(tables)
              IN  IF \E c \in 1..n : ~ModelAccepts(self.model.subs[c], tables[c])
                  THEN Raise(self, "model_error", idx, Invoked(idx, n))
                  ELSE LET np_score == _parallel_apply_score(
                                           self.model.subs, tables, self.cfg.n_jobs, order)
                       IN  \* _convert_tabular_to_series
                           Return(self,
                                  ApplyWindowAgg(self,
                                      ScoreSeries(series, self.cfg.window, n,
                                          [t \in 1..NumWindows(series, self.cfg.window) |->
                                              [c \in 1..n |-> np_score[c][t]]])),
                                  Invoked(idx, n))

\* the component-count gate placed after the inference
_score_core_windowed_gate_last(self, series, idx, order) ==
    LET r == _score_core_windowed_infer(self, series, idx, order)
    IN  IF self.width_trained_on # series.width
        THEN Raise(self, "width_mismatch", idx, r.infer_log)
        ELSE r

\* the component-count gate written as an assignment: the scorer adopts the
\* component count of the series it scores
_score_core_windowed_sets_width(self, series, idx, order) ==
    _score_core_windowed_infer([self EXCEPT !.width_trained_on = series.width],
                               series, idx, order)

\* WindowedAnomalyScorer._score_core on input element idx: the
\* component-count gate, then the inference
_score_core_windowed(self, series, idx, order) ==
    IF self.width_trained_on # series.width
    THEN Raise(self, "width_mismatch", idx, <<>>)
    ELSE _score_core_windowed_infer(self, series, idx, order)

\* the _score_core of a scorer that needs no fit: the sum over the
\* components of the absolute values, per time step
_score_core_plain(self, series, idx) ==
    Return(self,
           ScoreSeries(series, 1, 1,
               [t \in 1..series.len |->
                   <<SumSeq([k \in 1..series.width |-> Abs(series.vals[t][k][1])])>>]),
           <<>>)

\* the _score_core of the scorer's class (AnomalyScorer._score_core is not
\* implemented)
_score_core(self, series, idx, order) ==
    IF self.cfg.cls = "Windowed" THEN _score_core_windowed(self, series, idx, order)
    ELSE IF self.cfg.cls = "Plain" THEN _score_core_plain(self, series, idx)
    ELSE Raise(self, "NotImplementedError", idx, <<>>)

\* the first element of list_series that fails _assert_timeseries or
\* _check_window_size, as a raised result; err "none" when all pass
RECURSIVE ScoreValidate(_, _, _)
ScoreValidate(self, list_series, idx) ==
    IF idx > Len(list_series) THEN Return(self, NoOut, <<>>)
    ELSE IF ~_assert_timeseries(list_series[idx])
    THEN Raise(self, "not_timeseries", idx, <<>>)
    ELSE IF ~_check_window_size(self, list_series[idx])
    THEN Raise(self, "window_too_large", idx, <<>>)
    ELSE ScoreValidate(self, list_series, idx + 1)

\* [self._score_core(series) for series in list_series] from element idx on
RECURSIVE ScoreEach(_, _, _, _, _, _)
ScoreEach(self, list_series, idx, scores, log, order) ==
    IF idx > Len(list_series)
    THEN Return(self, [bare |-> FALSE, items |-> scores, window |-> 0], log)
    ELSE LET r == _score_core(self, list_series[idx], idx, order)
         IN  IF r.err # "none"
             THEN Raise(r.self, r.err, r.err_idx, log \o r.infer_log)
             ELSE ScoreEach(r.self, list_series, idx + 1, Append(scores, r.out),
                            log \o r.infer_log, order)

\* score unwrapping every result of one element, whether the input was a
\* series or a list
score_unwraps_single(self, series, order) ==
    IF ~_check_single_series_support(self)
    THEN Raise(self, "no_single_series_support", 0, <<>>)
    ELSE IF ~check_if_fit_called(self)
    THEN Raise(self, "not_fitted", 0, <<>>)
    ELSE LET list_series == series2seq(series)
             checked == ScoreValidate(self, list_series, 1)
         IN  IF checked.err # "none" THEN checked
             ELSE LET det == [i \in 1..Len(list_series) |->
                                _extract_deterministic(list_series[i])]
                      r == ScoreEach(self, det, 1, <<>>, <<>>, order)
                  IN  IF r.err # "none" THEN r
                      ELSE Return(r.self,
                                  [r.out EXCEPT !.bare = Len(r.out.items) = 1],
                                  r.infer_log)

\* AnomalyScorer.score
score(self, series, order) ==
    IF ~_check_single_series_support(self)
    THEN Raise(self, "no_single_series_support", 0, <<>>)
    ELSE IF ~check_if_fit_called(self)
    THEN Raise(self, "not_fitted", 0, <<>>)
    ELSE LET list_series == series2seq(series)
             checked == ScoreValidate(self, list_series, 1)
         IN  IF checked.err # "none" THEN checked
             ELSE LET det == [i \in 1..Len(list_series) |->
                                _extract_deterministic(list_series[i])]
                      r == ScoreEach(self, det, 1, <<>>, <<>>, order)
                  IN  IF r.err # "none" THEN r
                      ELSE Return(r.self,
                                  [r.out EXCEPT !.bare =
                                      Len(r.out.items) = 1 /\ ~IsSequence(series)],
                                  r.infer_log)

\* --------------------------------------------------- score_from_prediction
\* the last time step of a series
EndOf(series) == series.start + series.len - 1

\* whether the time indexes of two series have a common step
Overlap(a, b) ==
    (IF a.start > b.start THEN a.start ELSE b.start)
        <= (IF EndOf(a) < EndOf(b) THEN EndOf(a) ELSE EndOf(b))

\* a.slice_intersect(b): a restricted to the common time range
slice_intersect(a, b) ==
    LET lo == IF a.start > b.start THEN a.start ELSE b.start
        hi == IF EndOf(a) < EndOf(b) THEN EndOf(a) ELSE EndOf(b)
    IN  [a EXCEPT !.start = lo, !.len = hi - lo + 1,
                  !.vals = [t \in 1..(hi - lo + 1) |-> a.vals[t + lo - a.start]]]

\* AnomalyScorer._diff_series on two series of one shape, after _intersect
_diff_series(self, series_1, series_2) ==
    LET a == slice_intersect(series_1, series_2)
        b == slice_intersect(series_2, series_1)
    IN  [a EXCEPT !.vals = [t \in 1..a.len |-> [k \in 1..a.width |-> [j \in 1..a.ns |->
            IF self.cfg.diff_fn = "abs_diff"
            THEN Abs(a.vals[t][k][j] - b.vals[t][k][j])
            ELSE a.vals[t][k][j] - b.vals[t][k][j]]]]]

\* AnomalyScorer.is_probabilistic (NLLScorer overrides it to True)
is_probabilistic(self) ==
    IF self.cfg.cls = "NLL" THEN TRUE ELSE self.cfg.probabilistic_support

\* _check_ts_or_list_ts(input) inside score_from_prediction: whether input
\* is wrapped in a list is decided by the form of actual_series
_check_ts_or_list_ts(actual_series, input) ==
    IF ~IsSequence(actual_series)
    THEN \* [input]: a list object is not a TimeSeries
         ~IsSequence(input) /\ _assert_timeseries(input.items[1])
    ELSE IF IsSequence(input)
    THEN \A i \in 1..Len(input.items) : _assert_timeseries(input.items[i])
    ELSE \* iterating a TimeSeries yields its one-step TimeSeries
         _assert_timeseries(input.items[1])

\* AnomalyScorer._check_probabilistic_series: the index of the first series
\* _assert_stochastic rejects (0: none)
FirstNotStochastic(self, pred_series) ==
    IF is_probabilistic(self) /\ \E i \in 1..Len(pred_series) : pred_series[i].ns = 1
    THEN SetMin({i \in 1..Len(pred_series) : pred_series[i].ns = 1})
    ELSE 0

\* every series appended as it is, whatever the scorer expects
_check_probabilistic_series_pass_through(self, pred_series) == pred_series

\* AnomalyScorer._check_probabilistic_series when no series is rejected
_check_probabilistic_series(self, pred_series) ==
    [i \in 1..Len(pred_series) |->
        IF is_probabilistic(self) THEN pred_series[i]
        ELSE _extract_deterministic(pred_series[i])]

\* a pluggable negative log-likelihood of a value under the samples: the
\* sum of the distances to the samples
_score_core_nllikelihood(value, samples) ==
    SumSeq([j \in 1..Len(samples) |-> Abs(value - samples[j])])

\* a rolling mean that keeps the positions without a full window, as the
\* mean of the points there are
_window_adjustment_series_partial_windows(self, series) ==
    IF self.cfg.window = 1 THEN series
    ELSE LET w == self.cfg.window
         IN  [series EXCEPT
                !.vals = [t \in 1..series.len |-> [k \in 1..series.width |->
                            LET first == IF t - w + 1 < 1 THEN 1 ELSE t - w + 1
                            IN  <<Mean([i \in 1..(t - first + 1) |->
                                          series.vals[first + i - 1][k][1]])>>]]]

\* _window_adjustment_series inside NLLScorer._score_core_from_prediction:
\* a rolling mean over the past window points, positions without a full
\* window dropped
_window_adjustment_series(self, series) ==
    IF self.cfg.window = 1 THEN series
    ELSE LET w == self.cfg.window
         IN  [series EXCEPT
                !.start = series.start + w - 1,
                !.len = series.len - w + 1,
                !.vals = [t \in 1..(series.len - w + 1) |-> [k \in 1..series.width |->
                            <<Mean([i \in 1..w |-> series.vals[t + i - 1][k][1]])>>]]]

\* NLLScorer._score_core_from_prediction
_score_core_from_prediction_nll(self, actual_series, pred_series, idx) ==
    LET actual == _extract_deterministic(actual_series)
    IN  IF pred_series.ns = 1
        THEN Raise(self, "not_stochastic", idx, <<>>)
        ELSE Return(self,
                    _window_adjustment_series(self,
                        [ts |-> TRUE, start |-> pred_series.start, len |-> pred_series.len,
                         width |-> pred_series.width, ns |-> 1,
                         vals |-> [t \in 1..pred_series.len |-> [k \in 1..pred_series.width |->
                                    <<_score_core_nllikelihood(actual.vals[t][k][1],
                                                               pred_series.vals[t][k])>>]]]),
                    <<>>)

\* the hook a pair is scored by: _score_core on the difference series, for a
\* scorer with single-series support and in
\* WindowedAnomalyScorer._score_core_from_prediction alike
ScorePair(self, s1, s2, idx, order) ==
    IF self.cfg.single_series_support \/ self.cfg.cls = "Windowed"
    THEN IF s1.ns # s2.ns
         THEN Raise(self, "shape_mismatch", idx, <<>>)
         ELSE _score_core(self, _diff_series(self, s1, s2), idx, order)
    ELSE IF self.cfg.cls = "NLL"
    THEN _score_core_from_prediction_nll(self, s1, s2, idx)
    ELSE Raise(self, "NotImplementedError", idx, <<>>)

\* darts.ad.utils._sanity_check_two_series: "none" or the error it raises
_sanity_check_two_series(s1, s2) ==
    IF ~(_assert_timeseries(s1) /\ _assert_timeseries(s2)) THEN "not_timeseries"
    ELSE IF s1.width # s2.width THEN "pair_width_mismatch"
    ELSE IF ~Overlap(s1, s2) THEN "empty_intersection"
    ELSE "none"

\* the loop with the window checked on the two series as given, before
\* they are intersected
RECURSIVE ScorePairs_window_before_intersect(_, _, _, _, _, _, _)
ScorePairs_window_before_intersect(self, list_actual, list_pred, idx, scores, log, order) ==
    IF idx > Len(list_actual)
    THEN Return(self, [bare |-> FALSE, items |-> scores, window |-> 0], log)
    ELSE LET sane == _sanity_check_two_series(list_actual[idx], list_pred[idx])
             s1 == slice_intersect(list_actual[idx], list_pred[idx])
             s2 == slice_intersect(list_pred[idx], list_actual[idx])
         IN  IF sane # "none" THEN Raise(self, sane, idx, log)
             ELSE IF ~(_check_window_size(self, list_actual[idx])
                       /\ _check_window_size(self, list_pred[idx]))
             THEN Raise(self, "window_too_large", idx, log)
             ELSE LET r == ScorePair(self, s1, s2, idx, order)
                  IN  IF r.err # "none"
                      THEN Raise(r.self, r.err, r.err_idx, log \o r.infer_log)
                      ELSE ScorePairs_window_before_intersect(
                               r.self, list_actual, list_pred, idx + 1,
                               Append(scores, r.out), log \o r.infer_log, order)

\* the loop over zip(list_actual_series, list_pred_series) from pair idx on
RECURSIVE ScorePairs(_, _, _, _, _, _, _)
ScorePairs(self, list_actual, list_pred, idx, scores, log, order) ==
    IF idx > Len(list_actual)
    THEN Return(self, [bare |-> FALSE, items |-> scores, window |-> 0], log)
    ELSE LET sane == _sanity_check_two_series(list_actual[idx], list_pred[idx])
             s1 == slice_intersect(list_actual[idx], list_pred[idx])
             s2 == slice_intersect(list_pred[idx], list_actual[idx])
         IN  IF sane # "none" THEN Raise(self, sane, idx, log)
             ELSE IF ~(_check_window_size(self, s1) /\ _check_window_size(self, s2))
             THEN Raise(self, "window_too_large", idx, log)
             ELSE LET r == ScorePair(self, s1, s2, idx, order)
                  IN  IF r.err # "none"
                      THEN Raise(r.self, r.err, r.err_idx, log \o r.infer_log)
                      ELSE ScorePairs(r.self, list_actual, list_pred, idx + 1,
                                      Append(scores, r.out), log \o r.infer_log, order)

\* score_from_prediction pairing the two sequences as zip does, up to the
\* shorter one, without comparing their lengths
score_from_prediction_zip_shortest(self, actual_series, pred_series, order) ==
    IF self.cfg.fittable /\ ~check_if_fit_called(self)
    THEN Raise(self, "not_fitted", 0, <<>>)
    ELSE IF ~(_check_ts_or_list_ts(actual_series, actual_series)
              /\ _check_ts_or_list_ts(actual_series, pred_series))
    THEN Raise(self, "not_timeseries", 0, <<>>)
    ELSE LET list_actual == [i \in 1..Len(series2seq(actual_series)) |->
                                _extract_deterministic(series2seq(actual_series)[i])]
             bad == FirstNotStochastic(self, series2seq(pred_series))
             list_pred == _check_probabilistic_series(self, series2seq(pred_series))
             shortest == IF Len(list_actual) < Len(list_pred)
                         THEN Len(list_actual) ELSE Len(list_pred)
         IN  IF bad # 0 THEN Raise(self, "not_stochastic", bad, <<>>)
             ELSE LET r == ScorePairs(self, SubSeq(list_actual, 1, shortest),
                                      SubSeq(list_pred, 1, shortest), 1, <<>>, <<>>, order)
                  IN  IF r.err # "none" THEN r
                      ELSE Return(r.self,
                                  [r.out EXCEPT !.bare =
                                      /\ Len(r.out.items) = 1
                                      /\ ~IsSequence(pred_series)
                                      /\ ~IsSequence(actual_series)],
                                  r.infer_log)

\* AnomalyScorer.score_from_prediction
score_from_prediction(self, actual_series, pred_series, order) ==
    IF self.cfg.fittable /\ ~check_if_fit_called(self)
    THEN Raise(self, "not_fitted", 0, <<>>)
    ELSE IF ~(_check_ts_or_list_ts(actual_series, actual_series)
              /\ _check_ts_or_list_ts(actual_series, pred_series))
    THEN Raise(self, "not_timeseries", 0, <<>>)
    ELSE LET list_actual == [i \in 1..Len(series2seq(actual_series)) |->
                                _extract_deterministic(series2seq(actual_series)[i])]
             bad == FirstNotStochastic(self, series2seq(pred_series))
             list_pred == _check_probabilistic_series(self, series2seq(pred_series))
         IN  IF bad # 0 THEN Raise(self, "not_stochastic", bad, <<>>)
             ELSE IF Len(list_actual) # Len(list_pred)
             THEN Raise(self, "length_mismatch", 0, <<>>)
             ELSE LET r == ScorePairs(self, list_actual, list_pred, 1, <<>>, <<>>, order)
                  IN  IF r.err # "none" THEN r
                      ELSE Return(r.self,
                                  [r.out EXCEPT !.bare =
                                      /\ Len(r.out.items) = 1
                                      /\ ~IsSequence(pred_series)
                                      /\ ~IsSequence(actual_series)],
                                  r.infer_log)

\* ------------------------------------------------------------- eval_metric
\* the ground truth accepted whatever its width
_check_univariate_scorer_not_checked(self, actual_anomalies) == "none"

\* AnomalyScorer._check_univariate_scorer: "none" or the error it raises
_check_univariate_scorer(self, actual_anomalies) ==
    IF ~self.cfg.univariate_scorer THEN "none"
    ELSE IF \E i \in 1..Len(actual_anomalies) : ~_assert_timeseries(actual_anomalies[i])
    THEN "not_timeseries"
    ELSE IF \E i \in 1..Len(actual_anomalies) : actual_anomalies[i].width # 1
    THEN "anomalies_not_univariate"
    ELSE "none"

\* the scores r of a call handed on with a window, to eval_metric_from_scores
\* or show_anomalies_from_scores; an error of the call propagates
HandedOn(r, window) ==
    IF r.err # "none" THEN r
    ELSE Return(r.self, [r.out EXCEPT !.window = window], r.infer_log)

\* eval_metric handing the configured window whatever window_agg is
eval_metric_hands_window(self, actual_anomalies, series, order) ==
    IF ~_check_single_series_support(self)
    THEN Raise(self, "no_single_series_support", 0, <<>>)
    ELSE LET uni == _check_univariate_scorer(self, series2seq(actual_anomalies))
         IN  IF uni # "none" THEN Raise(self, uni, 0, <<>>)
             ELSE HandedOn(score(self, series, order), self.cfg.window)

\* AnomalyScorer.eval_metric up to the call of eval_metric_from_scores: the
\* result holds the score series and the window handed to it
eval_metric(self, actual_anomalies, series, order) ==
    IF ~_check_single_series_support(self)
    THEN Raise(self, "no_single_series_support", 0, <<>>)
    ELSE LET uni == _check_univariate_scorer(self, series2seq(actual_anomalies))
         IN  IF uni # "none" THEN Raise(self, uni, 0, <<>>)
             ELSE HandedOn(score(self, series, order),
                           IF self.cfg.window_agg THEN 1 ELSE self.cfg.window)

\* AnomalyScorer.eval_metric_from_prediction up to the call of
\* eval_metric_from_scores, which is handed self.window
eval_metric_from_prediction(self, actual_anomalies, actual_series, pred_series, order) ==
    LET uni == _check_univariate_scorer(self, series2seq(actual_anomalies))
    IN  IF uni # "none" THEN Raise(self, uni, 0, <<>>)
        ELSE HandedOn(score_from_prediction(self, actual_series, pred_series, order),
                      self.cfg.window)

\* ---------------------------------------------------------- show_anomalies
\* AnomalyScorer.show_anomalies up to the call of show_anomalies_from_scores:
\* the result holds the score series and the window handed to it
show_anomalies(self, series, order) ==
    IF ~_check_single_series_support(self)
    THEN Raise(self, "no_single_series_support", 0, <<>>)
    ELSE IF IsSequence(series) /\ Len(series.items) # 1
    THEN Raise(self, "not_one_series", 0, <<>>)
    ELSE IF ~_assert_timeseries(series.items[1])
    THEN Raise(self, "not_timeseries", 1, <<>>)
    ELSE HandedOn(score(self, [bare |-> TRUE, items |-> <<series.items[1]>>], order),
                  IF self.cfg.window_agg THEN 1 ELSE self.cfg.window)

\* ----------------------------------------------------- fit_from_prediction
\* _check_probabilistic_series as fit_from_prediction calls it, on series
\* nothing has validated: the first element it cannot read (an object
\* without the TimeSeries attributes) or _assert_stochastic rejects
ReconcileError(self, list_series) ==
    LET bad == {i \in 1..Len(list_series) :
                   \/ ~list_series[i].ts
                   \/ (is_probabilistic(self) /\ list_series[i].ns = 1)}
    IN  IF bad = {} THEN [err |-> "none", idx |-> 0]
        ELSE [err |-> IF list_series[SetMin(bad)].ts THEN "not_stochastic"
                      ELSE "AttributeError",
              idx |-> SetMin(bad)]

\* the loop of fit_from_prediction over zip(list_actual_series,
\* list_pred_series): the difference series of the pairs, or the error of
\* the first pair _sanity_check_two_series rejects
list_fit_series(self, list_actual, list_pred) ==
    LET bad == {i \in 1..Len(list_actual) :
                   _sanity_check_two_series(list_actual[i], list_pred[i]) # "none"}
    IN  IF bad # {}
        THEN [err |-> _sanity_check_two_series(list_actual[SetMin(bad)],
                                               list_pred[SetMin(bad)]),
              idx |-> SetMin(bad), items |-> <<>>]
        ELSE [err |-> "none", idx |-> 0,
              items |-> [i \in 1..Len(list_actual) |->
                            _diff_series(self, _extract_deterministic(list_actual[i]),
                                         _extract_deterministic(list_pred[i]))]]

\* AnomalyScorer.fit_from_prediction up to the call of fit: the list fit is
\* called with, or the error raised before
FitFromPredictionInput(self, actual_series, pred_series) ==
    LET ea == ReconcileError(self, series2seq(actual_series))
        ep == ReconcileError(self, series2seq(pred_series))
    IN  IF ea.err # "none" THEN [err |-> ea.err, idx |-> ea.idx, items |-> <<>>]
        ELSE IF ep.err # "none" THEN [err |-> ep.err, idx |-> ep.idx, items |-> <<>>]
        ELSE LET list_actual == _check_probabilistic_series(self, series2seq(actual_series))
                 list_pred == _check_probabilistic_series(self, series2seq(pred_series))
             IN  IF Len(list_actual) # Len(list_pred)
                 THEN [err |-> "length_mismatch", idx |-> 0, items |-> <<>>]
                 ELSE list_fit_series(self, list_actual, list_pred)

\* self.fit(list_fit_series), unless an error was raised before
FitOnDifferences(self, d, order) ==
    IF d.err # "none" THEN Raise(self, d.err, d.idx, <<>>)
    ELSE fit(self, [bare |-> FALSE, items |-> d.items], order)

\* AnomalyScorer.fit_from_prediction
fit_from_prediction(self, actual_series, pred_series, order) ==
    FitOnDifferences(self, FitFromPredictionInput(self, actual_series, pred_series), order)

\* ------------------------------------------------------------------ inputs
\* a deterministic series whose component k is constant at level * k
LevelSeries(start, len, width, level) ==
    LET Val(t, k, j) == level * k
    IN  MkSeries(start, len, width, 1, Val)

\* a three-sample series: sample j of component k is k + j - 2
StochasticSeries(start, len, width) ==
    LET Val(t, k, j) == k + j - 2
    IN  MkSeries(start, len, width, 3, Val)

Starts == {0, 1}

DetSeries == {LevelSeries(0, len, width, 1) : len \in 1..MaxLen, width \in Widths}

\* the longest of them
LongSeries == {LevelSeries(0, MaxLen, width, 1) : width \in Widths}

StochSeries == {StochasticSeries(0, MaxLen, width) : width \in Widths}

\* what a caller may put in a list
Elements == DetSeries \cup StochSeries \cup {NonSeries}

Bare(s) == [bare |-> TRUE, items |-> <<s>>]
List1(s) == [bare |-> FALSE, items |-> <<s>>]
List2(s, t) == [bare |-> FALSE, items |-> <<s, t>>]
NoArg == [bare |-> FALSE, items |-> <<>>]

\* the series argument of fit and score: a series, a list of one element,
\* or a list of a long series and one more element
SeriesArgs ==
    {Bare(s) : s \in DetSeries \cup StochSeries}
        \cup {List1(s) : s \in Elements}
        \cup {List2(s, t) : s \in LongSeries, t \in Elements}

\* predicted series: shifted in time, or with three samples
PredSeries ==
    {LevelSeries(start, len, width, 0) : start \in Starts, len \in 1..MaxLen, width \in Widths}
        \cup StochSeries

\* the prediction of a series that matches it in time and shape
PredOf(a) == LevelSeries(a.start, a.len, a.width, 0)

\* the (actual_series, pred_series) arguments of score_from_prediction
PairArgs ==
    {<<Bare(a), Bare(p)>> : a \in LongSeries, p \in PredSeries}
        \cup {<<Bare(a), Bare(PredOf(a))>> : a \in DetSeries}
        \cup {<<Bare(a), List1(PredOf(a))>> : a \in DetSeries}
        \cup {<<List1(a), Bare(PredOf(a))>> : a \in DetSeries}
        \cup {<<List1(a), List1(PredOf(a))>> : a \in DetSeries}
        \cup {<<List1(a), List1(NonSeries)>> : a \in LongSeries}
        \cup {<<List2(a, a), List2(PredOf(a), p)>> : a \in LongSeries, p \in PredSeries}
        \cup {<<List2(a, a), List1(PredOf(a))>> : a \in LongSeries}

\* the (actual_anomalies, series) arguments of eval_metric
EvalArgs ==
    {<<Bare(LevelSeries(0, MaxLen, width, 0)), Bare(s)>> : width \in Widths, s \in DetSeries}

\* ----------------------------------------------------------- configuration
\* AnomalyScorer.__init__ as called by the classes: a windowed scorer is
\* fittable; NLLScorer fixes its four flags; "Plain" is a scorer that needs
\* no fit and supports single series.  n_jobs is read by the component-wise
\* code only.
WindowedConfigs ==
    {[cls |-> "Windowed", window |-> w, window_agg |-> agg, component_wise |-> cw,
      fittable |-> TRUE, single_series_support |-> sss, probabilistic_support |-> FALSE,
      univariate_scorer |-> ~cw, diff_fn |-> "abs_diff", n_jobs |-> nj] :
        w \in 1..MaxWindow, agg \in BOOLEAN, cw \in BOOLEAN, sss \in BOOLEAN, nj \in NJobs}

NLLConfigs ==
    {[cls |-> "NLL", window |-> w, window_agg |-> agg, component_wise |-> FALSE,
      fittable |-> FALSE, single_series_support |-> FALSE, probabilistic_support |-> TRUE,
      univariate_scorer |-> FALSE, diff_fn |-> "abs_diff", n_jobs |-> 1] :
        w \in 1..MaxWindow, agg \in BOOLEAN}

PlainConfigs ==
    {[cls |-> "Plain", window |-> w, window_agg |-> agg, component_wise |-> FALSE,
      fittable |-> FALSE, single_series_support |-> TRUE, probabilistic_support |-> FALSE,
      univariate_scorer |-> TRUE, diff_fn |-> "abs_diff", n_jobs |-> 1] :
        w \in 1..MaxWindow, agg \in BOOLEAN}

Configs ==
    {c \in WindowedConfigs : c.component_wise \/ c.n_jobs = 1}
        \cup NLLConfigs \cup PlainConfigs

\* ------------------------------------------------------------------- state
\* the scorer object
Self ==
    [cfg |-> cfg, fit_called |-> fit_called, width_trained_on |-> width_trained_on,
     model |-> model]

\* the lengths of the elements of an argument
Lens(arg) == [i \in 1..Len(arg.items) |-> arg.items[i].len]

\* the component counts of the elements of an argument
Widths_of(arg) == [i \in 1..Len(arg.items) |-> arg.items[i].width]

\* the state after AnomalyScorer.__init__ with configuration c:
\* _fit_called is None, and False when fittable; width_trained_on is not set
\* (0); the window model is the untrained object the subclass constructed
__init__(c) ==
    [cfg |-> c, fit_called |-> IF c.fittable THEN "False" ELSE "None",
     width_trained_on |-> 0, model |-> [is_list |-> FALSE, subs |-> <<UntrainedModel>>]]

\* no fit call is under way on another thread, and none has raised
NotRunning == [active |-> FALSE, step |-> "none", arg |-> NoArg, failed |-> FALSE]

InitWith(c) ==
    /\ running = NotRunning
    /\ cfg = __init__(c).cfg
    /\ fit_called = __init__(c).fit_called
    /\ width_trained_on = __init__(c).width_trained_on
    /\ model = __init__(c).model
    /\ fit_done = FALSE
    /\ trained_on = <<>>
    /\ last = [op |-> "init", arg |-> NoArg, pred |-> NoArg, truth |-> NoArg,
               in_bare |-> FALSE,
               in_lens |-> <<>>, in_widths |-> <<>>, err |-> "none", err_idx |-> 0, out |-> NoOut,
               infer_log |-> <<>>]

Init == \E c \in Configs : InitWith(c)

\* The object after the call and the record of the call: the operation, the
\* form, lengths and component counts of its series argument, and its
\* result.  fit_done records that some fit call has returned.  The
\* arguments themselves (series, predictions, ground truth) are kept in the
\* record, and the input of the last successful fit in trained_on, only when
\* keep is set.
Outcome(op, arg, pred, truth, r, keep) ==
    \E res \in {r} :
        /\ cfg' = res.self.cfg
        /\ fit_called' = res.self.fit_called
        /\ width_trained_on' = res.self.width_trained_on
        /\ model' = res.self.model
        /\ fit_done' = (fit_done \/ (op \in {"fit", "fit_from_prediction"}
                                      /\ res.err = "none"))
        /\ trained_on' = IF keep /\ op = "fit" /\ res.err = "none"
                         THEN series2seq(arg)
                         ELSE IF keep /\ op = "fit_from_prediction" /\ res.err = "none"
                         THEN FitFromPredictionInput(Self, arg, pred).items
                         ELSE trained_on
        /\ last' = [op |-> op,
                    arg |-> IF keep THEN arg ELSE NoArg,
                    pred |-> IF keep THEN pred ELSE NoArg,
                    truth |-> IF keep THEN truth ELSE NoArg,
                    in_bare |-> arg.bare, in_lens |-> Lens(arg),
                    in_widths |-> Widths_of(arg),
                    err |-> res.err, err_idx |-> res.err_idx, out |-> res.out,
                    infer_log |-> res.infer_log]

\* a call that runs from its first statement to its last in one step
CalledWith(op, arg, pred, truth, r, keep) ==
    Outcome(op, arg, pred, truth, r, keep) /\ UNCHANGED running

\* a call without ground truth
Called(op, arg, pred, r, keep) == CalledWith(op, arg, pred, NoArg, r, keep)

MaxWidth == SetMax(Widths)

Orders == CompletionOrders(MaxWidth, cfg.n_jobs)

FitOn(args, keep) ==
    \E series \in args, order \in Orders :
        Called("fit", series, NoArg, fit(Self, series, order), keep)

ScoreOn(args, keep) ==
    \E series \in args, order \in Orders :
        Called("score", series, NoArg, score(Self, series, order), keep)

ScoreFromPredictionOn(pairs, keep) ==
    \E pair \in pairs, order \in Orders :
        Called("score_from_prediction", pair[1], pair[2],
               score_from_prediction(Self, pair[1], pair[2], order), keep)

EvalMetricOn(pairs, keep) ==
    \E pair \in pairs, order \in Orders :
        CalledWith("eval_metric", pair[2], NoArg, pair[1],
                   eval_metric(Self, pair[1], pair[2], order), keep)

FitFromPredictionOn(pairs, keep) ==
    \E pair \in pairs, order \in Orders :
        Called("fit_from_prediction", pair[1], pair[2],
               fit_from_prediction(Self, pair[1], pair[2], order), keep)

EvalMetricFromPredictionOn(triples, keep) ==
    \E triple \in triples, order \in Orders :
        CalledWith("eval_metric_from_prediction", triple[2], triple[3], triple[1],
                   eval_metric_from_prediction(Self, triple[1], triple[2], triple[3], order),
                   keep)

ShowAnomaliesOn(args, keep) ==
    \E series \in args, order \in Orders :
        Called("show_anomalies", series, NoArg, show_anomalies(Self, series, order), keep)

Fit == FitOn(SeriesArgs, FALSE)

Score == ScoreOn(SeriesArgs, FALSE)

ScoreFromPrediction == ScoreFromPredictionOn(PairArgs, FALSE)

EvalMetric == EvalMetricOn(EvalArgs, FALSE)

Next == Fit \/ Score \/ ScoreFromPrediction \/ EvalMetric

Spec == Init /\ [][Next]_vars

\* ------------------------------------------- component-wise scorers, by value
\* a two-component series: component k is constant at base[k] and steps up
\* by step[k] at its last time step
StepSeries(len, base, step) ==
    LET Val(t, k, j) == base[k] + (IF t = len THEN step[k] ELSE 0)
    IN  MkSeries(0, len, 2, 1, Val)

Bits == {0, 1}

ValuedSeries ==
    {StepSeries(len, base, step) :
        len \in {MaxWindow, MaxLen}, base \in Bits \X Bits,
        step \in {<<0, 0>>, <<0, 1>>}}

FitArgsByValue ==
    {Bare(s) : s \in ValuedSeries}
        \cup {List2(s, StepSeries(MaxLen, <<1, 0>>, <<0, 1>>)) : s \in ValuedSeries}

ScoreArgsByValue ==
    {Bare(s) : s \in ValuedSeries} \cup {List1(s) : s \in ValuedSeries}

ComponentWiseConfigs ==
    {c \in WindowedConfigs : c.component_wise /\ c.single_series_support}

InitComponentWise == \E c \in ComponentWiseConfigs : InitWith(c)

FitByValue == FitOn(FitArgsByValue, TRUE)

ScoreByValue == ScoreOn(ScoreArgsByValue, TRUE)

NextComponentWise == FitByValue \/ ScoreByValue

SpecComponentWise == InitComponentWise /\ [][NextComponentWise]_vars

\* ------------------------------------- all public methods, arguments kept
\* a deterministic series whose value at step t of component k is t * k
RampSeries(start, len, width) ==
    LET Val(t, k, j) == t * k
    IN  MkSeries(start, len, width, 1, Val)

\* the samples of a stochastic series lie 0, 1 and 5 above its base
SampleOffsets == <<0, 1, 5>>

\* a three-sample series: sample j at step t of component k is at
\* t + k above the offset of j, so that its median is not its mean
SampledSeries(start, len, width) ==
    LET Val(t, k, j) == t + k + SampleOffsets[j]
    IN  MkSeries(start, len, width, 3, Val)

\* actual series: the longest of each width, a one-step one, a stochastic one
ActualSeries ==
    {RampSeries(0, MaxLen, width) : width \in Widths}
        \cup {RampSeries(0, 1, 1), SampledSeries(0, MaxLen, 1)}

\* predictions of an actual series: one ahead of it in every step, sampled
\* ones, ones that start later (by one step, on the last step, after the
\* end) and one of another component count
PredictionsOf(a) ==
    {LevelSeries(a.start, a.len, a.width, 1), SampledSeries(a.start, a.len, a.width),
     LevelSeries(a.start + 1, a.len, a.width, 1),
     SampledSeries(a.start + a.len - 1, a.len, a.width),
     LevelSeries(a.start + a.len, a.len, a.width, 1),
     LevelSeries(a.start, a.len, 3 - a.width, 1)}

\* the (actual_series, pred_series) arguments, in every form
KeptPairArgs ==
    {<<Bare(a), Bare(p)>> : a \in {RampSeries(0, MaxLen, 1)}, p \in PredictionsOf(RampSeries(0, MaxLen, 1))}
        \cup {<<Bare(a), Bare(LevelSeries(a.start, a.len, a.width, 1))>> : a \in ActualSeries}
        \cup {<<Bare(a), Bare(SampledSeries(a.start, a.len, a.width))>> : a \in ActualSeries}
        \cup {<<List1(a), List1(SampledSeries(a.start, a.len, a.width))>> : a \in ActualSeries}
        \cup {<<List1(a), Bare(LevelSeries(a.start, a.len, a.width, 1))>> : a \in ActualSeries}
        \cup {<<Bare(a), List1(LevelSeries(a.start, a.len, a.width, 1))>> : a \in ActualSeries}
        \cup {<<List2(a, a), List1(LevelSeries(a.start, a.len, a.width, 1))>> : a \in ActualSeries}
        \cup {<<List2(a, a), List2(SampledSeries(0, MaxLen, 1), p)>> :
                 a \in {RampSeries(0, MaxLen, 1)}, p \in PredictionsOf(RampSeries(0, MaxLen, 1))}
        \cup {<<List1(NonSeries), List1(NonSeries)>>}

\* the series argument of fit, score and show_anomalies
KeptSeriesArgs ==
    {Bare(a) : a \in ActualSeries}
        \cup {List1(a) : a \in ActualSeries \cup {NonSeries}}
        \cup {List2(RampSeries(0, MaxLen, 1), a) : a \in ActualSeries}

\* ground truth series of one and of two components, and a list whose
\* second series has two
TruthArgs ==
    {Bare(LevelSeries(0, MaxLen, width, 0)) : width \in Widths}
        \cup {List2(LevelSeries(0, MaxLen, 1, 0), LevelSeries(0, MaxLen, 2, 0))}

KeptEvalArgs ==
    {<<truth, Bare(a)>> : truth \in TruthArgs, a \in ActualSeries}

KeptEvalPairArgs ==
    {<<truth, Bare(a), Bare(p)>> :
        truth \in TruthArgs, a \in {RampSeries(0, MaxLen, 1)},
        p \in {LevelSeries(0, MaxLen, 1, 1), SampledSeries(0, MaxLen, 1)}}

\* a windowed scorer with one model, with either probabilistic flag, and
\* the likelihood scorers
PublicConfigs ==
    {[c EXCEPT !.probabilistic_support = prob] :
        c \in {w \in WindowedConfigs : ~w.component_wise /\ w.n_jobs = 1},
        prob \in BOOLEAN}
        \cup NLLConfigs

InitPublic == \E c \in PublicConfigs : InitWith(c)

FitKept == FitOn(KeptSeriesArgs, FALSE)

FitFromPredictionKept == FitFromPredictionOn(KeptPairArgs, FALSE)

ScoreKept == ScoreOn(KeptSeriesArgs, TRUE)

ScoreFromPredictionKept == ScoreFromPredictionOn(KeptPairArgs, TRUE)

EvalMetricKept == EvalMetricOn(KeptEvalArgs, TRUE)

EvalMetricFromPredictionKept == EvalMetricFromPredictionOn(KeptEvalPairArgs, TRUE)

ShowAnomaliesKept == ShowAnomaliesOn(KeptSeriesArgs, TRUE)

NextPublic ==
    \/ FitKept
    \/ FitFromPredictionKept
    \/ ScoreKept
    \/ ScoreFromPredictionKept
    \/ EvalMetricKept
    \/ EvalMetricFromPredictionKept
    \/ ShowAnomaliesKept

SpecPublic == InitPublic /\ [][NextPublic]_vars

\* ------------------------------------------- fit, its input kept by value
\* a series whose last component holds, at its last step, a value the
\* window model rejects
RejectedSeries(len, width) ==
    LET Val(t, k, j) == IF t = len /\ k = width THEN -1 ELSE t * k
    IN  MkSeries(0, len, width, 1, Val)

\* series to fit on: deterministic ones, sampled ones and rejected ones
FitInputSeries ==
    {RampSeries(0, len, width) : len \in {MaxWindow, MaxLen}, width \in Widths}
        \cup {SampledSeries(0, MaxLen, width) : width \in Widths}
        \cup {RejectedSeries(MaxLen, width) : width \in Widths}

FitInputArgs ==
    {Bare(s) : s \in FitInputSeries}
        \cup {List2(RampSeries(0, MaxLen, s.width), s) : s \in FitInputSeries}

\* fitted windowed scorers with one job
FitInputConfigs ==
    {c \in WindowedConfigs :
        c.single_series_support /\ ~c.window_agg /\ c.n_jobs = 1}

InitFitInput == \E c \in FitInputConfigs : InitWith(c)

FitInput == FitOn(FitInputArgs, TRUE)

ScoreFitInput == ScoreOn({Bare(s) : s \in FitInputSeries}, TRUE)

NextFitInput == FitInput \/ ScoreFitInput

SpecFitInput == InitFitInput /\ [][NextFitInput]_vars

\* ------------------------------------- a fit call in steps, score between
\* A fit call on one thread is three steps, and a score call of another
\* thread runs between any two of them: the scorer takes no lock.
\* The result r of a step of fit: the call goes on unless r is an error.
GoesOn(r) == IF r.err = "none" THEN [r EXCEPT !.err = "running"] ELSE r

\* the fit call after a step that ended as r: under way at the next step, or
\* over, with an error or without
After(r, arg, next_step) ==
    IF r.err # "none"
    THEN [NotRunning EXCEPT !.failed = TRUE]
    ELSE IF next_step = "none" THEN [NotRunning EXCEPT !.failed = running.failed]
    ELSE [active |-> TRUE, step |-> next_step, arg |-> arg, failed |-> running.failed]

\* fit up to the call of _fit_core: the decorator and the validation loop,
\* which writes width_trained_on
FitBeginOn(args) ==
    /\ ~running.active
    /\ \E series \in args :
          \E r \in {IF ~_check_single_series_support(Self)
                    THEN Raise(Self, "no_single_series_support", 0, <<>>)
                    ELSE FitLoop(Self, series2seq(series), 1)} :
              /\ Outcome("fit", series, NoArg, NoArg, GoesOn(r), FALSE)
              /\ running' = After(r, series, "fit_core")

\* self._fit_core(list_series)
FitCoreOn ==
    /\ running.active /\ running.step = "fit_core"
    /\ \E order \in Orders :
          \E r \in {_fit_core(Self, series2seq(running.arg), order)} :
              /\ Outcome("fit", running.arg, NoArg, NoArg, GoesOn(r), FALSE)
              /\ running' = After(r, running.arg, "fit_called")

\* self._fit_called = True
FitEndOn ==
    /\ running.active /\ running.step = "fit_called"
    /\ \E r \in {Return([Self EXCEPT !.fit_called = "True"], NoOut, <<>>)} :
          /\ Outcome("fit", running.arg, NoArg, NoArg, r, FALSE)
          /\ running' = After(r, running.arg, "none")

\* series of either component count; a list of two counts, which the
\* validation loop rejects; a series the window model rejects
InterleavedFitArgs ==
    {Bare(RampSeries(0, MaxLen, width)) : width \in Widths}
        \cup {List2(RampSeries(0, MaxLen, 2), RampSeries(0, MaxLen, 1)),
              Bare(RejectedSeries(MaxLen, 1))}

InterleavedScoreArgs == {Bare(RampSeries(0, MaxLen, width)) : width \in Widths}

InitInterleaved == \E c \in FitInputConfigs : InitWith(c)

FitBegin == FitBeginOn(InterleavedFitArgs)

FitCore == FitCoreOn

FitEnd == FitEndOn

ScoreBetween == ScoreOn(InterleavedScoreArgs, FALSE)

NextInterleaved == FitBegin \/ FitCore \/ FitEnd \/ ScoreBetween

SpecInterleaved == InitInterleaved /\ [][NextInterleaved]_vars

\* ------------------------------------------------- window aggregation alone
\* window-wise score series: one sample, values by enumeration
ScoreValues(width) == IF width = 1 THEN 0..2 ELSE 0..1

WindowWiseScores ==
    UNION {{[ts |-> TRUE, start |-> MaxWindow - 1, len |-> n, width |-> wd, ns |-> 1,
             vals |-> v] :
               v \in [1..n -> [1..wd -> [1..1 -> ScoreValues(wd)]]]} :
           n \in 1..MaxLen, wd \in Widths}

\* a scorer that aggregates over windows
WindowAggConfigs ==
    {c \in WindowedConfigs :
        /\ c.window_agg /\ c.window = MaxWindow /\ ~c.component_wise
        /\ c.single_series_support /\ c.n_jobs = 1}

InitWindowAgg == \E c \in WindowAggConfigs : InitWith(c)

\* self._fun_window_agg([score], window)[0]
WindowAggOn(scores, windows) ==
    \E window_wise \in scores, window \in windows :
        Called("_fun_window_agg", Bare(window_wise), NoArg,
               Return(Self, [bare |-> TRUE,
                             items |-> <<_fun_window_agg(window_wise, window)>>,
                             window |-> window], <<>>),
               TRUE)

WindowAgg == WindowAggOn(WindowWiseScores, 1..(MaxWindow + 1))

NextWindowAgg == WindowAgg

SpecWindowAgg == InitWindowAgg /\ [][NextWindowAgg]_vars

\* ------------------------------------------------------------------ claims
\* what the record of the last call says about its series argument
IsWindowed == cfg.cls = "Windowed"

\* every element is a series at least as long as the window
ValidScoreInput ==
    \A i \in 1..Len(last.in_lens) :
        last.in_widths[i] >= 1 /\ cfg.window <= last.in_lens[i]

ValidationErrors == {"not_timeseries", "width_mismatch", "window_too_large"}

\* C1: on a fittable scorer, score and score_from_prediction raise the
\* not-fitted error exactly as long as no fit call has returned; once one
\* has, no later call of any operation raises it again.
C1_FitGateOneWay ==
    /\ (cfg.fittable /\ (last.op = "score_from_prediction"
                          \/ (last.op = "score" /\ cfg.single_series_support)))
           => (last.err = "not_fitted" <=> ~fit_done)
    /\ (cfg.fittable /\ last.err = "not_fitted") => ~fit_done
    /\ (cfg.fittable /\ fit_done) => fit_called = "True"

\* a score that returned on a fitted scorer
C1_Witness ==
    cfg.fittable /\ fit_done /\ last.op = "score" /\ last.err = "none"

\* C2: a scorer with fittable=false and single_series_support=true scores a
\* valid series (window <= length) without any prior fit.
C2_NonFittableAlwaysReady ==
    (~cfg.fittable /\ cfg.single_series_support /\ last.op = "score" /\ ValidScoreInput)
        => last.err = "none"

\* C3: a fit call that raises a validation error leaves fit_called,
\* width_trained_on and the model as they were before the call.
C3_FitAtomic ==
    [][(last'.op = "fit" /\ last'.err \in ValidationErrors)
          => (/\ fit_called' = fit_called
              /\ width_trained_on' = width_trained_on
              /\ model' = model)]_vars

\* C4: score and score_from_prediction, returning or raising, leave
\* fit_called, width_trained_on, the model(s) and the configuration unchanged.
C4_ScorePure ==
    [][(last'.op \in {"score", "score_from_prediction"})
          => UNCHANGED <<cfg, fit_called, width_trained_on, model>>]_vars

\* a component-wise scorer holding per-component models has scored a pair
C4_Witness ==
    /\ last.op = "score_from_prediction" /\ last.err = "none"
    /\ cfg.component_wise /\ model.is_list

\* the lengths of the returned score series
OutLens == [j \in 1..Len(last.out.items) |-> last.out.items[j].len]

\* C5 as claimed: score on a windowed scorer returns len - window + 1 scores
\* without window_agg and len scores with it.
C5_ScoreLength ==
    (IsWindowed /\ last.op = "score" /\ last.err = "none")
        => /\ Len(OutLens) = Len(last.in_lens)
           /\ \A j \in 1..Len(OutLens) :
                OutLens[j] = IF cfg.window_agg THEN last.in_lens[j]
                             ELSE last.in_lens[j] - cfg.window + 1

\* C5 as amended: score on a windowed scorer returns len - window + 1 scores
\* whether window_agg is set or not.
C5_ScoreLengthShortened ==
    (IsWindowed /\ last.op = "score" /\ last.err = "none")
        => /\ Len(OutLens) = Len(last.in_lens)
           /\ \A j \in 1..Len(OutLens) :
                /\ OutLens[j] = last.in_lens[j] - cfg.window + 1
                /\ Len(last.out.items[j].vals) = OutLens[j]
                /\ last.out.items[j].start = cfg.window - 1

\* a score with window aggregation over a window longer than one step
C5_Witness ==
    /\ IsWindowed /\ last.op = "score" /\ last.err = "none"
    /\ cfg.window > 1 /\ cfg.window_agg /\ last.in_lens[1] > cfg.window

\* C6: a fit call with valid input on an already-fit scorer succeeds, records
\* the new input's component count and leaves the scorer fit.
C6_FitAgain ==
    [][(fit_called = "True" /\ last'.op = "fit"
        /\ \A i \in 1..Len(last'.in_lens) :
              /\ last'.in_widths[i] >= 1
              /\ last'.in_widths[i] = last'.in_widths[1]
              /\ cfg.window <= last'.in_lens[i])
          => (/\ last'.err = "none"
              /\ fit_called' = "True"
              /\ width_trained_on' = last'.in_widths[1])]_vars

\* C9 as claimed: on a windowed scorer a component-count mismatch or a
\* too-large window in score or score_from_prediction is raised before any
\* inference of the call.
C9_ValidationBeforeInference ==
    (IsWindowed /\ last.op \in {"score", "score_from_prediction"}
     /\ last.err \in {"width_mismatch", "window_too_large"})
        => last.infer_log = <<>>

\* C9 as amended: the error is raised before inference is invoked on the
\* element (or pair) it is about, and a too-large window in score before
\* any inference of the call; elements before it may have been scored.
C9_ValidationBeforeOwnInference ==
    (IsWindowed /\ last.op \in {"score", "score_from_prediction"}
     /\ last.err \in {"width_mismatch", "window_too_large"})
        => /\ last.err_idx >= 1
           /\ \A n \in 1..Len(last.infer_log) : last.infer_log[n] < last.err_idx
           /\ (last.op = "score" /\ last.err = "window_too_large")
                 => last.infer_log = <<>>

\* a mismatch on the second element, raised after the first was scored
C9_Witness ==
    /\ IsWindowed /\ last.op = "score" /\ last.err = "width_mismatch"
    /\ last.err_idx = 2 /\ last.infer_log # <<>>

\* C10: on a scorer with fittable=false every fit call fails and neither
\* fit_called nor width_trained_on is ever set.
C10_FitOnlyIfFittable ==
    ~cfg.fittable
        => /\ last.op = "fit" => last.err # "none"
           /\ fit_called # "True"
           /\ width_trained_on = 0

\* component i of a series, as a series of its own
Component(series, i) ==
    [series EXCEPT !.width = 1,
                   !.vals = [t \in 1..series.len |-> <<series.vals[t][i]>>]]

Components(list_series, i) ==
    [bare |-> FALSE,
     items |-> [j \in 1..Len(list_series) |-> Component(list_series[j], i)]]

InOrder == [p \in 1..MaxWidth |-> p]

\* a scorer of the same window and sub-model with component_wise=false,
\* fitted on component i of the series the scorer was fitted on
SeparateScorer(i) ==
    fit(__init__([cfg EXCEPT !.component_wise = FALSE]),
        Components(trained_on, i), InOrder).self

\* C7: a component-wise scorer fitted and applied to series of more than one
\* component gives, in score column i, the scores of a scorer with
\* component_wise=false fitted and applied to component i alone.
C7_ComponentWiseAsSeparate ==
    (cfg.component_wise /\ last.op = "score" /\ last.err = "none"
     /\ last.in_widths[1] > 1)
        => \A j \in 1..Len(last.out.items) : \A i \in 1..last.in_widths[1] :
              Component(last.out.items[j], i)
                  = score(SeparateScorer(i), Components(last.arg.items, i),
                          InOrder).out.items[j]

\* C8: the sub-models a component-wise fit leaves, and the scores they
\* give, are the same for every n_jobs and every completion order of the
\* workers.
C8_ParallelAsSequential ==
    (cfg.component_wise /\ last.op = "score" /\ last.err = "none"
     /\ last.in_widths[1] > 1)
        => \A nj \in NJobs :
           \A fit_order \in CompletionOrders(MaxWidth, nj) :
           \A score_order \in CompletionOrders(MaxWidth, nj) :
              LET fitted == fit(__init__([cfg EXCEPT !.n_jobs = nj]),
                                [bare |-> FALSE, items |-> trained_on], fit_order).self
              IN  /\ fitted.model = model
                  /\ score(fitted, last.arg, score_order).out = last.out

\* C11: without single_series_support, fit, score, eval_metric and
\* show_anomalies raise the capability error whatever their input, no
\* inference is invoked and the scorer stays as constructed;
\* fit_from_prediction fails too; score_from_prediction and
\* eval_metric_from_prediction never raise the capability error.
C11_CapabilityGate ==
    /\ ~cfg.single_series_support
          => /\ last.op \in {"fit", "score", "eval_metric", "show_anomalies"}
                   => (last.err = "no_single_series_support" /\ last.infer_log = <<>>)
             /\ last.op = "fit_from_prediction" => last.err # "none"
             /\ Self = __init__(cfg)
    /\ last.op \in {"score_from_prediction", "eval_metric_from_prediction"}
          => last.err # "no_single_series_support"

\* fit_from_prediction got through its own validation and was stopped by fit
C11_Witness ==
    /\ ~cfg.single_series_support /\ last.op = "fit_from_prediction"
    /\ last.err = "no_single_series_support"

\* C12: on a scorer with single-series support, whatever its probabilistic
\* flag, fit_from_prediction never fails because of the number of samples of
\* an input.
C12_FitFromPredictionAnySampleCount ==
    (cfg.single_series_support /\ last.op = "fit_from_prediction")
        => last.err \notin {"not_stochastic", "shape_mismatch"}

\* the series a one-sample series stands for itself and a multi-sample
\* series is replaced by: the median of its samples, per step and component
Deterministic(series) ==
    IF series.ns = 1 THEN series
    ELSE [series EXCEPT !.ns = 1,
                        !.vals = [t \in 1..series.len |-> [k \in 1..series.width |->
                                     <<Median(series.vals[t][k])>>]]]

\* the score of pair j of the last call when the actual series is reduced
\* to a deterministic one and the predicted one only if reduce_pred
PairScore(j, reduce_pred) ==
    LET a == Deterministic(last.arg.items[j])
        p == IF reduce_pred THEN Deterministic(last.pred.items[j]) ELSE last.pred.items[j]
    IN  ScorePair(Self, slice_intersect(a, p), slice_intersect(p, a), j, InOrder).out

\* C13: score_from_prediction reduces every actual series to a deterministic
\* one; with probabilistic_support it fails if a predicted series has one
\* sample and otherwise scores the predicted series with all their samples;
\* without it, it scores the reduced predicted series and never fails
\* because of a sample count.
C13_ReconcileByFlag ==
    last.op = "score_from_prediction"
        => /\ (cfg.probabilistic_support
               /\ \E i \in 1..Len(last.pred.items) : last.pred.items[i].ns = 1)
                  => last.err # "none"
           /\ ~cfg.probabilistic_support
                  => last.err \notin {"not_stochastic", "shape_mismatch"}
           /\ last.err = "none"
                  => \A j \in 1..Len(last.out.items) :
                        last.out.items[j] = PairScore(j, ~cfg.probabilistic_support)

\* multi-sample actual and predicted series scored by a scorer without
\* probabilistic support
C13_Witness ==
    /\ last.op = "score_from_prediction" /\ last.err = "none"
    /\ ~cfg.probabilistic_support
    /\ last.arg.items[1].ns > 1 /\ last.pred.items[1].ns > 1

\* the component count of the series the model(s) held now were trained on
FittedWidth ==
    IF model.is_list THEN Len(model.subs) ELSE model.subs[1].nf \div cfg.window

\* C14: a fit call on series of different component counts fails; on a
\* fitted windowed scorer, score on series no shorter than the window fails
\* if and only if one of them differs in component count from the series
\* the scorer was fitted on.
C14_ComponentCountGate ==
    /\ (last.op = "fit" /\ \E i \in 1..Len(last.in_widths) :
                              last.in_widths[i] # last.in_widths[1])
          => last.err # "none"
    /\ (IsWindowed /\ cfg.single_series_support /\ fit_called = "True"
        /\ last.op = "score" /\ last.in_widths # <<>> /\ ValidScoreInput)
          => (last.err # "none"
                <=> \E i \in 1..Len(last.in_widths) : last.in_widths[i] # FittedWidth)

\* the number of time steps series a and b have in common
CommonLen(a, b) ==
    (IF a.start + a.len < b.start + b.len THEN a.start + a.len ELSE b.start + b.len)
        - (IF a.start > b.start THEN a.start ELSE b.start)

\* the pairs of the last call whose common time range is shorter than the window
ShortPairs ==
    {j \in 1..Len(last.arg.items) :
        CommonLen(last.arg.items[j], last.pred.items[j]) < cfg.window}

\* C15: fit and score fail when a series is shorter than the window;
\* score_from_prediction fails when the common time range of a pair is, even
\* if both series of the pair are long enough; the window error is raised
\* for no other series or pair.
C15_WindowCheck ==
    /\ (last.op \in {"fit", "score"}
        /\ \E i \in 1..Len(last.in_lens) : last.in_lens[i] < cfg.window)
          => last.err # "none"
    /\ (last.op \in {"fit", "score"} /\ last.err = "window_too_large")
          => last.in_lens[last.err_idx] < cfg.window
    /\ (last.op = "score_from_prediction"
        /\ Len(last.arg.items) = Len(last.pred.items) /\ ShortPairs # {})
          => last.err # "none"
    /\ (last.op = "score_from_prediction" /\ last.err = "window_too_large")
          => last.err_idx \in ShortPairs

\* a pair of series no shorter than the window, rejected for the window
C15_Witness ==
    /\ last.op = "score_from_prediction" /\ last.err = "window_too_large"
    /\ last.arg.items[last.err_idx].len >= cfg.window
    /\ last.pred.items[last.err_idx].len >= cfg.window

\* the pairs of the last call that have no time step in common
DisjointPairs ==
    {j \in 1..Len(last.arg.items) :
        j <= Len(last.pred.items)
        /\ CommonLen(last.arg.items[j], last.pred.items[j]) <= 0}

\* C16: score_from_prediction fails, and returns no score for any pair, when
\* the two sequences differ in their number of series or when a pair has no
\* time step in common; it reports these two errors in no other case.
C16_PairingErrors ==
    last.op = "score_from_prediction" =>
        /\ (Len(last.arg.items) # Len(last.pred.items) \/ DisjointPairs # {})
              => (last.err # "none" /\ last.out = NoOut)
        /\ last.err = "length_mismatch" => Len(last.arg.items) # Len(last.pred.items)
        /\ last.err = "empty_intersection" => last.err_idx \in DisjointPairs

\* the second pair has no common time step, after the first one was scored
C16_Witness ==
    /\ last.op = "score_from_prediction" /\ last.err = "empty_intersection"
    /\ last.err_idx = 2 /\ last.out = NoOut
    /\ 1 \notin ShortPairs

\* C17: score returns a single series for a single series and, for a
\* sequence of k series, a sequence of k score series, the j-th being the
\* score of the j-th input; score_from_prediction returns a single series
\* only when both of its arguments are single series.
C17_OutputCardinality ==
    /\ (last.op = "score" /\ last.err = "none") =>
          /\ last.out.bare <=> last.arg.bare
          /\ Len(last.out.items) = Len(last.arg.items)
          /\ last.arg.bare => Len(last.out.items) = 1
          /\ \A j \in 1..Len(last.arg.items) :
                last.out.items[j]
                    = score(Self, Bare(last.arg.items[j]), InOrder).out.items[1]
    /\ (last.op = "score_from_prediction" /\ last.err = "none") =>
          /\ last.out.bare <=> (last.arg.bare /\ last.pred.bare)
          /\ Len(last.out.items) = Len(last.arg.items)

\* a list of one series was scored and a list of one score came back
C17_Witness ==
    /\ last.op = "score" /\ last.err = "none"
    /\ ~last.arg.bare /\ Len(last.arg.items) = 1
    /\ ~last.out.bare /\ Len(last.out.items) = 1

\* the window eval_metric is to hand to the metric function
EffectiveWindow == IF cfg.window_agg THEN 1 ELSE cfg.window

\* C18: eval_metric hands the metric function a window of 1 when window_agg
\* is set and the configured window otherwise, and every score series it
\* passes along has length len(series) - effective window + 1.
C18_EffectiveWindowLength ==
    (last.op = "eval_metric" /\ last.err = "none") =>
        /\ last.out.window = EffectiveWindow
        /\ \A j \in 1..Len(last.out.items) :
              last.out.items[j].len = last.arg.items[j].len - EffectiveWindow + 1

\* C18, amended: eval_metric hands the metric function a window of 1 when
\* window_agg is set and the configured window otherwise; every score series
\* it passes along has length len(series) - window + 1 and starts at time
\* step window - 1 of its series, whether window_agg is set or not.
C18_EffectiveWindow ==
    (last.op = "eval_metric" /\ last.err = "none") =>
        /\ last.out.window = EffectiveWindow
        /\ Len(last.out.items) = Len(last.arg.items)
        /\ \A j \in 1..Len(last.out.items) :
              /\ last.out.items[j].len = last.arg.items[j].len - cfg.window + 1
              /\ last.out.items[j].start = last.arg.items[j].start + cfg.window - 1

\* scores aggregated over a window of more than one step were handed on
C18_Witness ==
    /\ last.op = "eval_metric" /\ last.err = "none"
    /\ cfg.window_agg /\ cfg.window > 1
    /\ last.out.window = 1
    /\ last.out.items[1].len = last.arg.items[1].len - cfg.window + 1

\* the last call was given a ground-truth series of more than one component
WideTruth == \E i \in 1..Len(last.truth.items) : last.truth.items[i].width # 1

\* C19: on a univariate-output scorer eval_metric and
\* eval_metric_from_prediction fail when a ground-truth series has a
\* component count other than 1, with no score computed; the error is the
\* ground-truth width error unless the capability gate of eval_metric fails
\* first; a scorer that is not univariate-output never raises that error and
\* eval_metric_from_prediction then ends as score_from_prediction does.
C19_UnivariateGroundTruth ==
    last.op \in {"eval_metric", "eval_metric_from_prediction"} =>
        /\ (cfg.univariate_scorer /\ WideTruth)
              => /\ last.err # "none" /\ last.out = NoOut /\ last.infer_log = <<>>
                 /\ (last.op = "eval_metric_from_prediction" \/ cfg.single_series_support)
                       => last.err = "anomalies_not_univariate"
        /\ last.err = "anomalies_not_univariate" => (cfg.univariate_scorer /\ WideTruth)
        /\ (~cfg.univariate_scorer /\ last.op = "eval_metric_from_prediction")
              => last.err = score_from_prediction(Self, last.arg, last.pred, InOrder).err

\* a fitted univariate-output scorer rejected a list of ground-truth series
\* for its second series
C19_Witness ==
    /\ last.op = "eval_metric_from_prediction" /\ cfg.univariate_scorer
    /\ fit_called = "True"
    /\ Len(last.truth.items) = 2 /\ last.truth.items[1].width = 1
    /\ last.err = "anomalies_not_univariate"

\* the first common time step of pair j of the last call
CommonStart(j) ==
    IF last.arg.items[j].start > last.pred.items[j].start
    THEN last.arg.items[j].start ELSE last.pred.items[j].start

\* the negative log-likelihood of component k of the actual series of pair j
\* at its common time step number t, under the samples predicted for it
RawNLL(j, t, k) ==
    LET a == Deterministic(last.arg.items[j])
        p == last.pred.items[j]
    IN  _score_core_nllikelihood(a.vals[CommonStart(j) - a.start + t][k][1],
                                 p.vals[CommonStart(j) - p.start + t][k])

\* C20: the likelihood scorer's score_from_prediction returns, for a pair
\* with N common time steps, with window 1 the N raw negative
\* log-likelihoods, one per time step and component, and with a larger
\* window the N - window + 1 means of the raw values of each time step and
\* the window - 1 before it, starting at the first step that has a full
\* window, whether window_agg is set or not.
C20_LikelihoodWindow ==
    (cfg.cls = "NLL" /\ last.op = "score_from_prediction" /\ last.err = "none") =>
        \A j \in 1..Len(last.out.items) :
            LET N == CommonLen(last.arg.items[j], last.pred.items[j])
                w == cfg.window
                out == last.out.items[j]
            IN  /\ out.len = N - w + 1
                /\ out.start = CommonStart(j) + w - 1
                /\ out.width = last.pred.items[j].width /\ out.ns = 1
                /\ Len(out.vals) = out.len
                /\ \A t \in 1..out.len : \A k \in 1..out.width :
                      out.vals[t][k]
                          = IF w = 1 THEN <<RawNLL(j, t, k)>>
                            ELSE <<[num |-> SumSeq([i \in 1..w |-> RawNLL(j, t + i - 1, k)]),
                                    den |-> w]>>

\* a likelihood scorer without window_agg returned the smoothed scores of a
\* pair that has more common time steps than the window
C20_Witness ==
    /\ cfg.cls = "NLL" /\ ~cfg.window_agg /\ cfg.window > 1
    /\ last.op = "score_from_prediction" /\ last.err = "none"
    /\ last.out.items[1].len = last.arg.items[1].len - cfg.window + 1
    /\ last.out.items[1].len > 1

\* the fraction r is the mean of the values
IsMeanOf(r, values) ==
    r.den > 0 /\ r.num * Len(values) = SumSeq(values) * r.den

\* C21: window aggregation returns a series of the length and time index of
\* the window-wise scores, whose value at index i is the mean of the scores
\* at i .. min(i + W, L) - 1; with W = 1 every value equals the input's.
C21_WindowAggregation ==
    last.op = "_fun_window_agg" =>
        LET window_wise == last.arg.items[1]
            agg == last.out.items[1]
            W == last.out.window
        IN  /\ agg.len = window_wise.len /\ agg.start = window_wise.start
            /\ agg.width = window_wise.width /\ Len(agg.vals) = window_wise.len
            /\ \A i \in 1..window_wise.len : \A k \in 1..window_wise.width :
                  LET stop == IF i + W - 1 < window_wise.len THEN i + W - 1 ELSE window_wise.len
                  IN  /\ IsMeanOf(agg.vals[i][k][1],
                                  [t \in 1..(stop - i + 1) |-> window_wise.vals[i + t - 1][k][1]])
                      /\ W = 1 => agg.vals[i][k][1].num
                                     = window_wise.vals[i][k][1] * agg.vals[i][k][1].den

\* window_wises that differ from one index to the next were aggregated over a
\* window that is clipped at the end
C21_Witness ==
    /\ last.op = "_fun_window_agg" /\ last.out.window > 1
    /\ last.arg.items[1].len = MaxLen
    /\ last.arg.items[1].vals[1][1][1] # last.arg.items[1].vals[2][1][1]
    /\ last.out.items[1].vals[MaxLen][1][1].den = 1

\* the rows a series contributes to the table when it has one sample
RowsOf(series) == series.len - cfg.window + 1

\* C22: the series fit hands to the fit routine have one sample each: the
\* model of a scorer fitted on a list of series is the one trained on their
\* median series, and the table it was trained on has as many rows as the
\* sum of len - window + 1 over the series.
C22_FitOnDeterministic ==
    (last.op = "fit" /\ last.err = "none" /\ ~cfg.component_wise) =>
        /\ \A i \in 1..Len(trained_on) : trained_on[i].ns = 1
        /\ model.subs[1]
              = ModelFit(UntrainedModel,
                         _tabularize_joint(Self,
                             [i \in 1..Len(trained_on) |-> Deterministic(trained_on[i])]))
        /\ Len(_tabularize_joint(Self, trained_on))
              = SumSeq([i \in 1..Len(trained_on) |-> RowsOf(trained_on[i])])

\* C23: a fit call in which a sub-model's train call raises ends with that
\* error and leaves fit_called, the model(s) and every other attribute the
\* call writes as they were; a score call in which a sub-model's infer call
\* raises ends with that error, returns nothing and changes nothing.
C23_SubModelFailureAborts ==
    [][/\ (last'.op = "fit" /\ last'.err = "train_error")
             => (/\ fit_called' = fit_called
                 /\ model' = model
                 /\ width_trained_on' = width_trained_on)
       /\ (last'.op = "score" /\ last'.err = "model_error")
             => (/\ last'.out = NoOut
                 /\ UNCHANGED <<cfg, fit_called, width_trained_on, model>>)]_vars

\* C24: on a windowed scorer, whenever fit_called is true, width_trained_on
\* is the component count of the data the held model(s) were trained on,
\* and a list of per-component models has width_trained_on entries.
C24_FitStateConsistent ==
    (IsWindowed /\ fit_called = "True") =>
        /\ width_trained_on = FittedWidth
        /\ model.is_list => Len(model.subs) = width_trained_on

\* C25: score_from_prediction accepts a prediction whatever the form of the
\* actual series: a single actual series with a one-element list [p] as
\* prediction ends as the call on the pair (actual, p) does, with the same
\* scores.
C25_FormPerArgument ==
    (/\ last.op = "score_from_prediction"
     /\ last.arg.bare /\ ~last.pred.bare /\ Len(last.pred.items) = 1) =>
        LET paired == score_from_prediction(Self, last.arg,
                                            Bare(last.pred.items[1]), InOrder)
        IN  last.err = paired.err /\ last.out.items = paired.out.items

\* width_trained_on is not the component count the held model(s) were
\* trained on
MixedFitState == model.subs[1].trained /\ width_trained_on # FittedWidth

\* C26: a score call sees a mixed fit state only while a fit call on the
\* same scorer is under way or after a fit call has raised: when the calls
\* run one after the other and every fit returns, no score call sees one.
C26_MixedOnlyWhenInterleaved ==
    (last.op = "score" /\ MixedFitState) => (running.active \/ running.failed)

\* a score call between the steps of a fit, none having raised before: it
\* rejects a series of the component count the model was trained on, by the
\* width_trained_on the running fit has written
C26_Witness ==
    /\ last.op = "score" /\ MixedFitState
    /\ running.active /\ ~running.failed
    /\ last.err = "width_mismatch" /\ last.in_widths = <<FittedWidth>>

====
